---- MODULE Spec2Model ----
(***************************************************************************)
(* Model of google_maps_scraper/scraper.py: scrape_google_maps, i.e. the   *)
(* feed-visibility wait, the scroll loop ("Feed Collector") and the        *)
(* per-listing extraction loop ("Listing Field Parser").                   *)
(*                                                                         *)
(* The browser page is the environment.  It is modelled by feedVisible,    *)
(* feedItems (the number of div.Nv2PK elements in the DOM) and             *)
(* markerVisible.  The DOM changes only as the effect of a successful      *)
(* scroll-to-bottom evaluation, and then to any count and any marker       *)
(* visibility, so every sequence of observed counts, marker visibilities   *)
(* and trigger outcomes is a behaviour of the model.                       *)
(***************************************************************************)
EXTENDS Integers, Sequences, FiniteSets, TLC

\* Largest number of listing elements the modelled feed renders.
MaxItems == 2

\* The longest text the normalizer is given
MaxTextLen == 3

\* The number of calls of clean_text in a row
MaxCleanings == 3

\* scraper.py:78  max_scroll_attempts = 20
max_scroll_attempts == 20

\* scraper.py:93  if consecutive_no_change >= 3
stall_threshold == 3

VARIABLES
    pc,                       \* position in scrape_google_maps
    results,                  \* scraper.py:26   results = []
    previous_results_count,   \* scraper.py:76
    current_results_count,    \* scraper.py:82
    scroll_attempts,          \* scraper.py:77
    consecutive_no_change,    \* scraper.py:79
    num_elements,             \* scraper.py:124  len(result_elements)
    idx,                      \* scraper.py:178  i (1-based index of the next element)
    returned,                 \* the value returned to the caller, NotReturned before
    bundle,                   \* scraper.py:178  the listing element being processed
    parsed,                   \* scraper.py:183-347  what the iteration made of it
    feedVisible,              \* page: div[role="feed"] becomes visible in time
    feedItems,                \* page: number of div.Nv2PK elements in the DOM
    markerVisible,            \* page: the end-of-list span is visible
    reads,                    \* history: executions of line 82
    triggers,                 \* history: successful or failed executions of lines 101 and 111
    backoff_triggers,         \* history: executions of line 101
    lastReadCount,            \* history: the value line 82 returned last
    unchangedRun,             \* history: length of the current run of reads equal to the read before
    markerAtRead,             \* history: markerVisible when line 82 last ran
    markerAtCheck,            \* history: what line 89 saw since line 82 last ran (FALSE: not run, or not visible)
    scrolledSinceRead,        \* history: a scroll evaluation has succeeded since line 82 last ran
    loadedUntriggered,        \* history: before line 124 answered, the item count changed after a read with no successful scroll since
    scrollFailed,             \* history: a scroll evaluation raised (lines 103, 113)
    stopReason,               \* history: why the while loop was left
    processed,                \* history: the bundles the extraction loop has met, in order
    text_in,                  \* scraper.py:8   the argument of the next call of clean_text
    cleaned                   \* history: the values clean_text has returned, in order

vars == << pc, results, previous_results_count, current_results_count,
           scroll_attempts, consecutive_no_change, num_elements, idx, returned,
           bundle, parsed, feedVisible, feedItems, markerVisible, reads, triggers,
           backoff_triggers, lastReadCount, unchangedRun, markerAtRead,
           markerAtCheck, scrolledSinceRead, loadedUntriggered, scrollFailed,
           stopReason, processed, text_in, cleaned >>

collectorVars == << previous_results_count, current_results_count,
                    scroll_attempts, consecutive_no_change >>
extractVars == << results, num_elements, idx, processed, bundle, parsed >>
pageVars == << feedVisible, feedItems, markerVisible >>
textVars == << text_in, cleaned >>
historyVars == << reads, triggers, backoff_triggers, lastReadCount,
                  unchangedRun, markerAtRead, markerAtCheck, scrolledSinceRead,
                  loadedUntriggered, scrollFailed, stopReason >>

NotReturned == << "NotReturned" >>

Counts == 0 .. MaxItems

(***************************************************************************)
(* Texts.  A Python str is a sequence of characters; a character is the    *)
(* one-character string itself, or a mnemonic for a character outside      *)
(* ASCII: GBP, EUR, INR, YEN, THB (currency signs), MIDDOT (U+00B7),       *)
(* ENDASH (U+2013), NBSP (U+00A0), PUA (U+E000, an icon glyph of the       *)
(* Private Use Area).  CodePoints gives each character its code point, so  *)
(* character classes and ranges are decided as Python's re decides them.   *)
(***************************************************************************)
Characters ==
    << " ", "!", "\"", "#", "$", "%", "&", "'", "(", ")", "*", "+", ",",
       "-", ".", "/", "0", "1", "2", "3", "4", "5", "6", "7", "8", "9",
       ":", ";", "<", "=", ">", "?", "@", "A", "B", "C", "D", "E", "F",
       "G", "H", "I", "J", "K", "L", "M", "N", "O", "P", "Q", "R", "S",
       "T", "U", "V", "W", "X", "Y", "Z", "[", "\\", "]", "^", "_", "a",
       "b", "c", "d", "e", "f", "g", "h", "i", "j", "k", "l", "m", "n",
       "o", "p", "q", "r", "s", "t", "u", "v", "w", "x", "y", "z", "{",
       "|", "}", "~", "\t", "GBP", "EUR", "INR", "YEN", "THB", "MIDDOT",
       "ENDASH", "PUA", "NBSP" >>

\* The code point of Characters[i]
CodePoints ==
    << 32, 33, 34, 35, 36, 37, 38, 39, 40, 41, 42, 43, 44, 45, 46, 47, 48,
       49, 50, 51, 52, 53, 54, 55, 56, 57, 58, 59, 60, 61, 62, 63, 64, 65,
       66, 67, 68, 69, 70, 71, 72, 73, 74, 75, 76, 77, 78, 79, 80, 81, 82,
       83, 84, 85, 86, 87, 88, 89, 90, 91, 92, 93, 94, 95, 97, 98, 99, 100,
       101, 102, 103, 104, 105, 106, 107, 108, 109, 110, 111, 112, 113,
       114, 115, 116, 117, 118, 119, 120, 121, 122, 123, 124, 125, 126, 9,
       163, 8364, 8377, 165, 3647, 183, 8211, 57344, 160 >>

ord(c) == CodePoints[CHOOSE i \in 1 .. Len(Characters) : Characters[i] = c]

\* Python None, where a text may be absent
None == << "None" >>

\* The sentinel "N/A"
NA == << "N", "/", "A" >>

\* Python truthiness of a str-or-None value: if not text, x or "N/A"
Truthy(text) == text # None /\ text # << >>

\* x or "N/A"
OrNA(text) == IF Truthy(text) THEN text ELSE NA

\* A set of code point intervals << lo, hi >>, as a regex character class
InClass(c, cls) == \E iv \in cls : ord(c) \in iv[1] .. iv[2]

\* str.split() and \s: the whitespace of the modelled characters
Whitespace == { << 9, 13 >>, << 28, 32 >>, << 133, 133 >>, << 160, 160 >> }

\* scraper.py:11  the class [U+E000-U+F8FF]
PrivateUseArea == { << 57344, 63743 >> }

\* \d
Digits == { << 48, 57 >> }

IsSpace(c) == InClass(c, Whitespace)

\* text[a:b] for 0 <= a, b <= len(text)
Slice(text, a, b) == IF a >= b THEN << >> ELSE SubSeq(text, a + 1, b)

\* str.split(): the maximal runs of non-whitespace characters
RECURSIVE SplitFrom(_, _, _)
SplitFrom(text, i, cur) ==
    IF i > Len(text)
      THEN IF cur = << >> THEN << >> ELSE << cur >>
      ELSE IF IsSpace(text[i])
             THEN IF cur = << >>
                    THEN SplitFrom(text, i + 1, << >>)
                    ELSE << cur >> \o SplitFrom(text, i + 1, << >>)
             ELSE SplitFrom(text, i + 1, Append(cur, text[i]))

split(text) == SplitFrom(text, 1, << >>)

\* sep.join(parts)
RECURSIVE join(_, _)
join(sep, parts) ==
    IF parts = << >> THEN << >>
    ELSE IF Len(parts) = 1 THEN parts[1]
    ELSE parts[1] \o sep \o join(sep, Tail(parts))

\* str.strip(chars) with chars given as a character class
RECURSIVE lstrip(_, _)
lstrip(text, cls) ==
    IF text # << >> /\ InClass(text[1], cls) THEN lstrip(Tail(text), cls) ELSE text

RECURSIVE rstrip(_, _)
rstrip(text, cls) ==
    IF text # << >> /\ InClass(text[Len(text)], cls)
      THEN rstrip(SubSeq(text, 1, Len(text) - 1), cls) ELSE text

strip(text, cls) == rstrip(lstrip(text, cls), cls)

\* scraper.py:8-13  clean_text
clean_text(text) ==
    IF ~Truthy(text) THEN NA
    ELSE strip(join(<< " " >>,
                    split(SelectSeq(text, LAMBDA c : ~InClass(c, PrivateUseArea)))),
               Whitespace)

\* The first offset >= from at which sub occurs in text, -1 if none: str.find
RECURSIVE find(_, _, _)
find(text, sub, from) ==
    IF from + Len(sub) > Len(text) THEN -1
    ELSE IF Slice(text, from, from + Len(sub)) = sub THEN from
    ELSE find(text, sub, from + 1)

\* text.replace(old, new, 1)
replace_first(text, old, new) ==
    LET at == find(text, old, 0)
    IN  IF at = -1 THEN text
        ELSE Slice(text, 0, at) \o new \o Slice(text, at + Len(old), Len(text))

\* text.replace(old, new), old not empty
RECURSIVE replace_all(_, _, _)
replace_all(text, old, new) ==
    LET at == find(text, old, 0)
    IN  IF at = -1 THEN text
        ELSE Slice(text, 0, at) \o new
               \o replace_all(Slice(text, at + Len(old), Len(text)), old, new)

\* str.isdigit()
isdigit(text) == text # << >> /\ \A i \in 1 .. Len(text) : InClass(text[i], Digits)

(***************************************************************************)
(* Regular expressions, matched as Python's re matches them: leftmost,     *)
(* greedy, alternatives in order, backtracking into what comes after.  A   *)
(* regex is a sequence of nodes:                                           *)
(*   k = "cls": a character of class cls, min to max times (max = -1: no   *)
(*              upper limit), as many as possible first;                   *)
(*   k = "grp": one of the regexes alts, in order; min = 0 makes the       *)
(*              group optional (tried first, then skipped);                *)
(*   k = "eos": $ at the end of the text.                                  *)
(***************************************************************************)
Cls(cls, min, max) == [ k |-> "cls", cls |-> cls, min |-> min, max |-> max, alts |-> << >> ]
Grp(alts, min) == [ k |-> "grp", cls |-> { }, min |-> min, max |-> 1, alts |-> alts ]
Eos == [ k |-> "eos", cls |-> { }, min |-> 0, max |-> 0, alts |-> << >> ]

\* The class of one literal character; under re.IGNORECASE an ASCII letter
\* stands for both of its cases.
LitClass(c, ignorecase) ==
    LET n == ord(c)
    IN  IF ignorecase /\ n >= 65 /\ n <= 90 THEN { << n, n >>, << n + 32, n + 32 >> }
        ELSE IF ignorecase /\ n >= 97 /\ n <= 122 THEN { << n, n >>, << n - 32, n - 32 >> }
        ELSE { << n, n >> }

\* The regex of a literal text (what re.escape(text) compiles to)
Lit(text, ignorecase) == [ i \in 1 .. Len(text) |-> Cls(LitClass(text[i], ignorecase), 1, 1) ]

\* The number of characters of class cls at offset pos, up to max
RECURSIVE RunLength(_, _, _, _)
RunLength(cls, text, pos, max) ==
    IF max = 0 \/ pos >= Len(text) \/ ~InClass(text[pos + 1], cls) THEN 0
    ELSE 1 + RunLength(cls, text, pos + 1, IF max = -1 THEN -1 ELSE max - 1)

\* The end offset of the match of re at offset pos, -1 if there is none
RECURSIVE MatchHere(_, _, _), TryCount(_, _, _, _, _), TryAlts(_, _, _, _, _)
MatchHere(re, text, pos) ==
    IF re = << >> THEN pos
    ELSE LET n == Head(re)
             rest == Tail(re)
         IN  IF n.k = "cls"
               THEN TryCount(rest, text, pos, RunLength(n.cls, text, pos, n.max), n.min)
             ELSE IF n.k = "grp"
               THEN TryAlts(n, rest, text, pos, 1)
             ELSE IF pos = Len(text) THEN MatchHere(rest, text, pos) ELSE -1

TryCount(rest, text, pos, count, min) ==
    IF count < min THEN -1
    ELSE LET r == MatchHere(rest, text, pos + count)
         IN  IF r # -1 THEN r ELSE TryCount(rest, text, pos, count - 1, min)

TryAlts(n, rest, text, pos, j) ==
    IF j > Len(n.alts)
      THEN IF n.min = 0 THEN MatchHere(rest, text, pos) ELSE -1
      ELSE LET r == MatchHere(n.alts[j] \o rest, text, pos)
           IN  IF r # -1 THEN r ELSE TryAlts(n, rest, text, pos, j + 1)

\* A match object is its span [start, end); NoMatch is re's None
NoMatch == [ start |-> -1, end |-> -1 ]
IsMatch(m) == m.start # -1

\* re.match(re, text)
re_match(re, text) ==
    LET e == MatchHere(re, text, 0)
    IN  IF e = -1 THEN NoMatch ELSE [ start |-> 0, end |-> e ]

\* re.search(re, text)
RECURSIVE SearchFrom(_, _, _)
SearchFrom(re, text, pos) ==
    IF pos > Len(text) THEN NoMatch
    ELSE LET e == MatchHere(re, text, pos)
         IN  IF e # -1 THEN [ start |-> pos, end |-> e ]
             ELSE SearchFrom(re, text, pos + 1)

re_search(re, text) == SearchFrom(re, text, 0)

\* match_obj.group(0)
group(text, m) == Slice(text, m.start, m.end)

\* scraper.py:16-20  remove_match_from_string
remove_match_from_string(text, m) ==
    IF ~Truthy(text) \/ ~IsMatch(m) THEN text
    ELSE Slice(text, 0, m.start) \o Slice(text, m.end, Len(text))

\* re.sub(re, '', text, count): the matches removed, left to right; count = 0
\* removes them all
RECURSIVE SubFrom(_, _, _, _)
SubFrom(re, text, pos, left) ==
    LET m == SearchFrom(re, text, pos)
    IN  IF left = 0 \/ ~IsMatch(m) THEN Slice(text, pos, Len(text))
        ELSE IF m.end > m.start
          THEN Slice(text, pos, m.start) \o SubFrom(re, text, m.end, left - 1)
        ELSE IF m.end < Len(text)
          THEN Slice(text, pos, m.end + 1) \o SubFrom(re, text, m.end + 1, left - 1)
        ELSE Slice(text, pos, Len(text))

re_sub_empty(re, text, count) == SubFrom(re, text, 0, IF count = 0 THEN -1 ELSE count)

(***************************************************************************)
(* The Listing Field Parser, scraper.py:178-349                            *)
(***************************************************************************)

\* [GBP $ EUR INR YEN THB], scraper.py:239, 248, 260
CurrencySymbols == { << 163, 163 >>, << 36, 36 >>, << 8364, 8364 >>,
                     << 8377, 8377 >>, << 165, 165 >>, << 3647, 3647 >> }

\* scraper.py:239  [\d,.-ENDASH+]: the digits, the comma, the range from the
\* full stop (U+002E) to the en dash (U+2013), and the plus sign
BroadPriceClass == Digits \cup { << 44, 44 >>, << 46, 8211 >>, << 43, 43 >> }

\* scraper.py:248  [\d.,]
DigitsDotComma == Digits \cup { << 46, 46 >>, << 44, 44 >> }

\* scraper.py:248  [ENDASH-]
Dashes == { << 8211, 8211 >>, << 45, 45 >> }

PlusSign == { << 43, 43 >> }

\* scraper.py:268  [ \-]
SpaceOrHyphen == { << 32, 32 >>, << 45, 45 >> }

\* the dot of a regex: any character but the newline
AnyChar == { << 0, 9 >>, << 11, 1114111 >> }

\* scraper.py:239  price_regex_num_broad
price_regex_num_broad ==
    << Cls(CurrencySymbols, 1, 1), Cls(Whitespace, 0, -1), Cls(BroadPriceClass, 1, -1) >>

\* scraper.py:248  price_regex_num_clean (re.match anchors it at the start)
price_regex_num_clean ==
    << Cls(CurrencySymbols, 1, 1),
       Cls(Whitespace, 0, -1),
       Grp(<< << Cls(DigitsDotComma, 1, -1),
                 Grp(<< << Cls(Dashes, 1, 1), Cls(DigitsDotComma, 1, -1) >> >>, 0) >>,
              << Cls(CurrencySymbols, 0, 2) >> >>, 1),
       Cls(PlusSign, 0, 1) >>

\* scraper.py:260  price_regex_sym
price_regex_sym == << Cls(CurrencySymbols, 1, 4) >>

\* scraper.py:268  phone_regex
phone_regex ==
    << Cls(PlusSign, 1, 1),
       Cls(Digits, 1, 4),
       Cls(SpaceOrHyphen, 0, 1),
       Grp(<< << Cls({ << 40, 40 >> }, 0, 1), Cls(Digits, 2, 4), Cls({ << 41, 41 >> }, 0, 1) >>,
              << Cls(Digits, 2, 4) >> >>, 1),
       Cls(SpaceOrHyphen, 0, 1),
       Cls(Digits, 3, -1),
       Cls(Whitespace \cup { << 45, 45 >> }, 0, 1),
       Cls(Digits, 3, -1) >>

\* scraper.py:285-295
known_types == <<
    << "U", "s", "e", "d", " ", "b", "o", "o", "k", " ", "s", "t", "o", "r", "e" >>,
    << "C", "o", "m", "i", "c", " ", "b", "o", "o", "k", " ", "s", "t", "o", "r", "e" >>,
    << "R", "a", "r", "e", " ", "b", "o", "o", "k", " ", "s", "t", "o", "r", "e" >>,
    << "B", "o", "o", "k", " ", "s", "t", "o", "r", "e" >>,
    << "R", "e", "s", "t", "a", "u", "r", "a", "n", "t" >>,
    << "C", "a", "f", "e" >>,
    << "B", "a", "r" >>,
    << "P", "u", "b" >>,
    << "H", "o", "t", "e", "l" >>,
    << "S", "t", "e", "a", "k", "h", "o", "u", "s", "e" >>,
    << "S", "t", "e", "a", "k" >>,
    << "C", "h", "o", "p", "h", "o", "u", "s", "e" >>,
    << "P", "a", "k", "i", "s", "t", "a", "n", "i" >>,
    << "I", "n", "d", "i", "a", "n" >>,
    << "C", "h", "i", "n", "e", "s", "e" >>,
    << "I", "t", "a", "l", "i", "a", "n" >>,
    << "T", "h", "a", "i" >>,
    << "J", "a", "p", "a", "n", "e", "s", "e" >>,
    << "M", "e", "x", "i", "c", "a", "n" >>,
    << "G", "r", "e", "e", "k" >>,
    << "T", "u", "r", "k", "i", "s", "h" >>,
    << "L", "e", "b", "a", "n", "e", "s", "e" >>,
    << "B", "r", "u", "n", "c", "h" >>,
    << "B", "a", "k", "e", "r", "y" >>,
    << "D", "e", "s", "s", "e", "r", "t" >>,
    << "C", "o", "f", "f", "e", "e" >>,
    << "T", "e", "a" >>,
    << "F", "a", "s", "t", " ", "F", "o", "o", "d" >>,
    << "F", "i", "n", "e", " ", "D", "i", "n", "i", "n", "g" >>,
    << "B", "a", "r", "b", "e", "c", "u", "e" >> >>

\* scraper.py:300  r'\\b{}\\b'.format(re.escape(k_type)) with re.IGNORECASE:
\* in the raw string \\ is the regex for one literal backslash, so the pattern
\* is: a backslash, the letter b, the keyword, a backslash, the letter b.
type_regex(k_type) == Lit(<< "\\", "b" >> \o k_type \o << "\\", "b" >>, TRUE)

\* scraper.py:320  the alternatives of the second group
address_stop_words == <<
    << "O", "p", "e", "n" >>,
    << "C", "l", "o", "s", "e", "d" >>,
    << "C", "l", "o", "s", "e", "s" >>,
    << "O", "p", "e", "n", "i", "n", "g" >>,
    << "H", "o", "u", "r", "s" >>,
    << "S", "e", "r", "v", "e", "s" >>,
    << "D", "e", "l", "i", "v", "e", "r", "s" >>,
    << "T", "a", "k", "e", "o", "u", "t" >>,
    << "D", "i", "n", "e", "-", "i", "n" >>,
    << "P", "i", "c", "k", "u", "p" >>,
    << "D", "e", "l", "i", "v", "e", "r", "y" >>,
    << "O", "f", "f", "e", "r", "s" >>,
    << "E", "n", "d", "s" >>,
    << "S", "t", "a", "r", "t", "s" >>,
    << "T", "e", "m", "p", "o", "r", "a", "r", "y" >>,
    << "P", "e", "r", "m", "a", "n", "e", "n", "t", "l", "y" >> >>

\* scraper.py:320  the address regex with re.IGNORECASE; in the raw string
\* \\s* is a literal backslash followed by any number of the letter s
address_regex ==
    << Grp(<< Lit(<< "\\" >>, TRUE) \o << Cls(LitClass("s", TRUE), 0, -1) >>
                \o Lit(<< "MIDDOT" >>, TRUE)
                \o Lit(<< "\\" >>, TRUE) \o << Cls(LitClass("s", TRUE), 0, -1) >> >>, 0),
       Grp([ i \in 1 .. Len(address_stop_words) |-> Lit(address_stop_words[i], TRUE) ], 1),
       Cls(AnyChar, 0, -1),
       Eos >>

\* ' MIDDOT '
InfoSeparator == << " ", "MIDDOT", " " >>

\* the characters of strip(' MIDDOT')
SpaceOrMiddot == { << 32, 32 >>, << 183, 183 >> }

\* filter(None, info_texts)
FilterNone(texts) == SelectSeq(texts, Truthy)

\* scraper.py:198-205  the info block text; "" when fetching it raised
FetchInfoText(b) ==
    IF b.info_ok THEN clean_text(join(InfoSeparator, FilterNone(b.info_texts)))
    ELSE << >>

\* scraper.py:226-231  drop the rating and the reviews text, then normalize
RemoveRatingReviews(st) ==
    LET w1 == IF st.rating # NA /\ find(st.working, st.rating, 0) # -1
                THEN replace_first(st.working, st.rating, << >>) ELSE st.working
        w2 == IF st.reviews # NA /\ find(w1, st.reviews, 0) # -1
                THEN replace_first(w1, st.reviews, << >>) ELSE w1
    IN  [ st EXCEPT !.working = clean_text(w2) ]

\* scraper.py:235-265  price: the broad match re-read by the clean pattern,
\* else the symbols alone
ExtractPrice(st) ==
    LET broad == re_search(price_regex_num_broad, st.working)
        potential == group(st.working, broad)
        clean == IF IsMatch(broad) THEN re_match(price_regex_num_clean, potential)
                 ELSE NoMatch
        st1 == IF IsMatch(broad) /\ IsMatch(clean)
                 THEN [ st EXCEPT !.price_str = clean_text(group(potential, clean)),
                                  !.working = remove_match_from_string(st.working, broad) ]
                 ELSE st
        sym == re_search(price_regex_sym, st1.working)
    IN  IF st1.price_str = NA /\ IsMatch(sym)
          THEN [ st1 EXCEPT !.price_str = clean_text(group(st1.working, sym)),
                            !.working = remove_match_from_string(st1.working, sym) ]
          ELSE st1

\* scraper.py:268-280  phone, searched in the original info text, and the
\* clean-up of the working text
ExtractPhone(st) ==
    LET m == re_search(phone_regex, st.full)
        st1 == IF IsMatch(m)
                 THEN [ st EXCEPT !.phone_number = clean_text(group(st.full, m)),
                                  !.working = re_sub_empty(Lit(group(st.full, m), FALSE),
                                                           st.working, 1) ]
                 ELSE st
    IN  [ st1 EXCEPT !.working =
            clean_text(strip(replace_all(st1.working, << "MIDDOT", " ", "MIDDOT" >>,
                                         << "MIDDOT" >>),
                             SpaceOrMiddot)) ]

\* scraper.py:297-306  the index of the first keyword whose pattern is found
\* in the working text, 0 if none
RECURSIVE FirstTypeFrom(_, _)
FirstTypeFrom(text, j) ==
    IF j > Len(known_types) THEN 0
    ELSE IF IsMatch(re_search(type_regex(known_types[j]), text)) THEN j
    ELSE FirstTypeFrom(text, j + 1)

\* scraper.py:296-315  type, and the clean-up of the working text
ExtractType(st) ==
    LET j == FirstTypeFrom(st.working, 1)
        st1 == IF j = 0 THEN st
               ELSE [ st EXCEPT !.place_type = known_types[j],
                                !.working = remove_match_from_string(st.working,
                                    re_search(type_regex(known_types[j]), st.working)) ]
    IN  [ st1 EXCEPT !.type_text = st.working,
                     !.type_pass = TRUE,
                     !.type_found = st1.place_type,
                     !.type_rest = st1.working,
                     !.working = clean_text(strip(st1.working, SpaceOrMiddot)) ]

\* scraper.py:319-323  address: what is left, cut at the first status word
ExtractAddress(st) ==
    IF ~Truthy(st.working) THEN st
    ELSE LET a == clean_text(strip(re_sub_empty(address_regex, st.working, 0), Whitespace))
         IN  [ st EXCEPT !.address = IF ~Truthy(a) \/ Len(a) < 5 THEN NA ELSE a ]

\* scraper.py:326-329  final sanity checks
SanityChecks(st) ==
    LET t1 == IF st.place_type = st.address THEN NA ELSE st.place_type
        t2 == IF ~Truthy(t1) \/ isdigit(t1) THEN NA ELSE t1
        a2 == IF ~Truthy(st.address) \/ isdigit(st.address) THEN NA ELSE st.address
        w2 == IF ~Truthy(st.website_url) THEN NA ELSE st.website_url
    IN  [ st EXCEPT !.place_type = t2, !.address = a2, !.website_url = w2 ]

\* An exception handler that drops the listing instead of keeping its record.
OnExtractionError_drop(st) == [ st EXCEPT !.kind = "extraction_error" ]

\* scraper.py:331-336  except Exception: every field is mapped through
\* lambda x: x if x != "N/A" else "N/A", which returns x in both cases
OnExtractionError(st) ==
    LET keep(x) == IF x # NA THEN x ELSE NA
    IN  [ st EXCEPT !.name = keep(st.name), !.rating = keep(st.rating),
                    !.reviews = keep(st.reviews), !.price_str = keep(st.price_str),
                    !.place_type = keep(st.place_type), !.address = keep(st.address),
                    !.phone_number = keep(st.phone_number),
                    !.website_url = keep(st.website_url) ]

\* scraper.py:221-336  the try block.  fail_at is the line of the statement
\* of the block that raises (0: none does); the statements before it have run.
ExtractionPasses(st, fail_at) ==
    LET s1 == RemoveRatingReviews(st)
        s2 == ExtractPhone(ExtractPrice(s1))
        s3 == ExtractType(s2)
    IN  IF fail_at = 234 THEN OnExtractionError(s1)
        ELSE IF fail_at = 281 THEN OnExtractionError(s2)
        ELSE IF fail_at = 316 THEN OnExtractionError(s3)
        ELSE SanityChecks(ExtractAddress(s3))

\* scraper.py:214  if not name or name == "N/A"
NameMissing(name) == ~Truthy(name) \/ name = NA

\* scraper.py:188-195  the fields as they stand before the extraction passes
InitialFields(b) ==
    [ kind |-> "record",
      name |-> clean_text(b.name),
      rating |-> OrNA(b.rating_text),
      reviews |-> OrNA(clean_text(b.reviews_text)),
      price_str |-> NA,
      place_type |-> NA,
      address |-> NA,
      phone_number |-> NA,
      website_url |-> b.website_url,
      full |-> FetchInfoText(b),
      working |-> FetchInfoText(b),
      type_pass |-> FALSE,
      type_text |-> << >>,
      type_found |-> NA,
      type_rest |-> << >> ]

\* scraper.py:178-349  one iteration of the extraction loop on the listing b:
\* kind says whether a record is appended ("record") or the listing is left
\* out because evaluating it raised ("eval_error") or it has no name
\* ("no_name").  type_pass, type_text, type_found and type_rest record what
\* the type pass was given and what it made of it.
process_element(b) ==
    IF ~b.eval_ok THEN [ InitialFields(b) EXCEPT !.kind = "eval_error" ]
    ELSE IF NameMissing(InitialFields(b).name)
      THEN [ InitialFields(b) EXCEPT !.kind = "no_name" ]
    ELSE ExtractionPasses(InitialFields(b), b.fail_at)

\* scraper.py:338-347  result_data
result_data(st) ==
    [ Name |-> st.name, Rating |-> st.rating, Reviews |-> st.reviews,
      Price |-> st.price_str, Type |-> st.place_type, Address |-> st.address,
      Phone_Number |-> st.phone_number, Website |-> st.website_url ]

(***************************************************************************)
(* The listings of the modelled feed                                       *)
(***************************************************************************)

\* The value of bundle and parsed before the first listing is processed
NoBundle == << "NoBundle" >>
NotParsed == << "NotParsed" >>

\* The lines of the try block at which the model lets a statement raise:
\* the print calls of lines 234, 281 and 316 (0: nothing raises)
FailPoints == { 0, 234, 281, 316 }

\* The listings a session meets: "Al" (info "Cafe"), "Bo" whose extraction
\* passes raise at line 234, a listing without a name, and one whose
\* evaluation raises.
SessionBundles == {
    [ eval_ok |-> TRUE, name |-> << "A", "l" >>, rating_text |-> None, reviews_text |-> None,
      website_url |-> << "x", ".", "i", "o" >>, info_ok |-> TRUE, info_texts |-> << << "C", "a", "f", "e" >> >>, fail_at |-> 0 ],
    [ eval_ok |-> TRUE, name |-> << "B", "o" >>, rating_text |-> None, reviews_text |-> None,
      website_url |-> None, info_ok |-> TRUE, info_texts |-> << << "$", "$" >> >>, fail_at |-> 234 ],
    [ eval_ok |-> TRUE, name |-> None, rating_text |-> None, reviews_text |-> None,
      website_url |-> None, info_ok |-> TRUE, info_texts |-> << << "P", "u", "b" >> >>, fail_at |-> 0 ],
    [ eval_ok |-> FALSE, name |-> << "C", "y" >>, rating_text |-> None, reviews_text |-> None,
      website_url |-> None, info_ok |-> TRUE, info_texts |-> << << "B", "a", "r" >> >>, fail_at |-> 0 ] }

\* The names the parser is given: absent, "", blank, "N/A", an icon glyph
\* alone, and " Al  PUA Bar " with its icon and spare blanks
ParserNames == { None, << >>, << " " >>, NA, << "PUA" >>,
                 << " ", "A", "l", " ", " ", "PUA", " ", "B", "a", "r", " " >> }

\* The website links: none, or "x.io"
ParserWebsites == { None, << "x", ".", "i", "o" >> }

\* The info blocks the parser is given, with the rating and reviews texts the
\* JavaScript extractor found for the listing
InfoBlocks == {
    \* scenario 1: "4.5 stars", "(1,234)", "GBP20-30 . Italian . 221B Baker Street, London" (en dash, middle dots)
    [ rating_text |-> << "4", ".", "5" >>, reviews_text |-> << "(", "1", ",", "2", "3", "4", ")" >>,
      info_texts |-> << << "4", ".", "5", " ", "s", "t", "a", "r", "s" >>,
                        << "(", "1", ",", "2", "3", "4", ")" >>,
                        << "GBP", "2", "0", "ENDASH", "3", "0", " ", "MIDDOT", " ", "I", "t", "a", "l", "i", "a", "n", " ", "MIDDOT", " ", "2", "2", "1", "B", " ", "B", "a", "k", "e", "r", " ", "S", "t", "r", "e", "e", "t", ",", " ", "L", "o", "n", "d", "o", "n" >> >> ],
    \* scenario 2: "$$", "Closed . Opens 9AM . Mexican . 5 Elm St"
    [ rating_text |-> None, reviews_text |-> None,
      info_texts |-> << << "$", "$" >>,
                        << "C", "l", "o", "s", "e", "d", " ", "MIDDOT", " ", "O", "p", "e", "n", "s", " ", "9", "A", "M", " ", "MIDDOT", " ", "M", "e", "x", "i", "c", "a", "n", " ", "MIDDOT", " ", "5", " ", "E", "l", "m", " ", "S", "t" >> >> ],
    \* "Italian"
    [ rating_text |-> None, reviews_text |-> None,
      info_texts |-> << << "I", "t", "a", "l", "i", "a", "n" >> >> ],
    \* "used book store"
    [ rating_text |-> None, reviews_text |-> None,
      info_texts |-> << << "u", "s", "e", "d", " ", "b", "o", "o", "k", " ", "s", "t", "o", "r", "e" >> >> ],
    \* the type pattern itself in the text: "\bitalian\b . 12 High Street"
    [ rating_text |-> None, reviews_text |-> None,
      info_texts |-> << << "\\", "b", "i", "t", "a", "l", "i", "a", "n", "\\", "b", " ", "MIDDOT", " ", "1", "2", " ", "H", "i", "g", "h", " ", "S", "t", "r", "e", "e", "t" >> >> ],
    \* a price glued to a word, and a phone number
    [ rating_text |-> << "4", ".", "5" >>, reviews_text |-> None,
      info_texts |-> << << "EUR", "2", "0", "ENDASH", "3", "0", "F", "r", "e", "n", "c", "h", " ", "MIDDOT", " ", "+", "4", "4", " ", "2", "0", " ", "7", "9", "4", "6", " ", "0", "9", "5", "8", " ", "MIDDOT", " ", "1", "0", " ", "D", "o", "w", "n", "i", "n", "g", " ", "S", "t", "r", "e", "e", "t" >> >> ],
    \* no info fragment at all
    [ rating_text |-> None, reviews_text |-> None,
      info_texts |-> <<  >> ],
    \* "\bBarbecue\b Barbecue": what is left after the type equals the type
    [ rating_text |-> None, reviews_text |-> None,
      info_texts |-> << << "\\", "b", "B", "a", "r", "b", "e", "c", "u", "e", "\\", "b", " ", "B", "a", "r", "b", "e", "c", "u", "e" >> >> ] }

\* The listings the parser is checked on
ParserBundles ==
    { [ eval_ok |-> TRUE, name |-> n, rating_text |-> blk.rating_text,
        reviews_text |-> blk.reviews_text, website_url |-> w, info_ok |-> TRUE,
        info_texts |-> blk.info_texts, fail_at |-> f ] :
      n \in ParserNames, w \in ParserWebsites,
      blk \in InfoBlocks, f \in FailPoints }
    \cup
    { [ eval_ok |-> ok, name |-> << " ", "A", "l", " ", " ", "PUA", " ", "B", "a", "r", " " >>,
        rating_text |-> None, reviews_text |-> None, website_url |-> None,
        info_ok |-> iok, info_texts |-> << << "C", "a", "f", "e" >> >>, fail_at |-> 0 ] :
      ok \in BOOLEAN, iok \in BOOLEAN }

\* process_element on the session's listings
SessionOutcome == [ b \in SessionBundles |-> process_element(b) ]

(***************************************************************************)
(* The scroll loop, scraper.py:76-119                                      *)
(***************************************************************************)

\* An off-by-one loop test: one attempt too many.
LoopCondition_offByOne(attempts) == attempts <= max_scroll_attempts

\* scraper.py:81  while scroll_attempts < max_scroll_attempts
LoopCondition(attempts) == attempts < max_scroll_attempts

\* scraper.py:85  current_results_count == previous_results_count and scroll_attempts > 0
CountUnchanged(cur, prev, attempts) == cur = prev /\ attempts > 0

\* A stall limit that gives up one unchanged read early.
StallLimitReached_early(stall) == stall >= stall_threshold - 1

\* scraper.py:93  consecutive_no_change >= 3
StallLimitReached(stall) == stall >= stall_threshold

\* A marker check that never leaves the loop.
EndMarkerBreak_ignored(visible) == FALSE

\* scraper.py:89  if await end_marker.is_visible(...): break
EndMarkerBreak(visible) == visible

\* A scroll error handler that goes on with the loop instead of leaving it.
OnScrollError_continue == "read_count"

\* scraper.py:103-105 and 113-115  except Exception: break
OnScrollError == "list_elements"

\* The page is live: during every awaited call or sleep of lines 82-124 it
\* may render more (or other) items and show or hide the end-of-list marker.
\* Each step of the loop is one await; the primed page is the page when the
\* awaited call answers.
PageRenders ==
    /\ feedItems' \in Counts
    /\ markerVisible' \in BOOLEAN
    /\ UNCHANGED feedVisible

\* Note whether the item count changed in the step with no scroll evaluation
\* having succeeded since the count was last read
NoteUntriggeredLoad ==
    loadedUntriggered' =
        (loadedUntriggered \/ (feedItems' # feedItems /\ ~scrolledSinceRead'))

Init ==
    /\ pc = "wait_feed"
    /\ results = << >>
    /\ previous_results_count = 0
    /\ current_results_count = 0
    /\ scroll_attempts = 0
    /\ consecutive_no_change = 0
    /\ num_elements = 0
    /\ idx = 0
    /\ returned = NotReturned
    /\ bundle = NoBundle
    /\ parsed = NotParsed
    /\ feedVisible \in BOOLEAN
    /\ feedItems \in Counts
    /\ markerVisible \in BOOLEAN
    /\ reads = 0
    /\ triggers = 0
    /\ backoff_triggers = 0
    /\ lastReadCount = 0
    /\ unchangedRun = 0
    /\ markerAtRead = FALSE
    /\ markerAtCheck = FALSE
    /\ scrolledSinceRead = FALSE
    /\ loadedUntriggered = FALSE
    /\ scrollFailed = FALSE
    /\ stopReason = "none"
    /\ processed = << >>
    /\ text_in = None
    /\ cleaned = << >>

\* A feed wait whose timeout is swallowed: the session goes on to the scroll loop.
WaitForFeed_swallowed ==
    /\ pc = "wait_feed"
    /\ pc' = "read_count"
    /\ UNCHANGED << textVars, collectorVars, extractVars, pageVars, returned,
                    historyVars >>

\* scraper.py:63-69  wait for the feed; on failure close the browser and return []
WaitForFeed ==
    /\ pc = "wait_feed"
    /\ IF feedVisible
         THEN /\ pc' = "read_count"
              /\ UNCHANGED << returned, stopReason >>
         ELSE /\ pc' = "done"
              /\ returned' = << >>
              /\ stopReason' = "no_feed"
    /\ UNCHANGED << textVars, collectorVars, extractVars, pageVars, reads, triggers,
                    backoff_triggers, lastReadCount, unchangedRun,
                    markerAtRead, markerAtCheck, scrolledSinceRead,
                    loadedUntriggered, scrollFailed >>

\* scraper.py:82-86 and 106-107  read the count and choose the branch
ReadCount ==
    /\ pc = "read_count"
    /\ PageRenders
    /\ current_results_count' = feedItems'
    /\ reads' = reads + 1
    /\ lastReadCount' = feedItems'
    /\ unchangedRun' = IF reads >= 1 /\ feedItems' = lastReadCount
                         THEN unchangedRun + 1 ELSE 0
    /\ markerAtRead' = markerVisible'
    /\ markerAtCheck' = FALSE
    /\ scrolledSinceRead' = FALSE
    /\ IF CountUnchanged(feedItems', previous_results_count, scroll_attempts)
         THEN /\ consecutive_no_change' = consecutive_no_change + 1
              /\ pc' = "check_marker"
         ELSE /\ consecutive_no_change' = 0
              /\ pc' = "scroll"
    /\ UNCHANGED << textVars, previous_results_count, scroll_attempts, extractVars,
                    returned, triggers, backoff_triggers, loadedUntriggered,
                    scrollFailed, stopReason >>

\* scraper.py:88-95  end marker, then the stall limit
CheckMarker ==
    /\ pc = "check_marker"
    /\ PageRenders
    /\ markerAtCheck' = markerVisible'
    /\ IF EndMarkerBreak(markerVisible')
         THEN pc' = "list_elements" /\ stopReason' = "marker"
         ELSE IF StallLimitReached(consecutive_no_change)
                THEN pc' = "list_elements" /\ stopReason' = "stall"
                ELSE pc' = "backoff_wait" /\ UNCHANGED stopReason
    /\ UNCHANGED << textVars, collectorVars, extractVars, returned, reads,
                    triggers, backoff_triggers, lastReadCount, unchangedRun,
                    markerAtRead, scrolledSinceRead, scrollFailed >>
    /\ NoteUntriggeredLoad

\* scraper.py:96-98  back off: await asyncio.sleep(1.5 + consecutive_no_change)
BackoffWait ==
    /\ pc = "backoff_wait"
    /\ PageRenders
    /\ pc' = "backoff_scroll"
    /\ UNCHANGED << textVars, collectorVars, extractVars, returned, reads, triggers,
                    backoff_triggers, lastReadCount, unchangedRun, markerAtRead,
                    markerAtCheck, scrolledSinceRead, scrollFailed, stopReason >>
    /\ NoteUntriggeredLoad

\* scraper.py:100-105  scroll again (the evaluate of line 101); leave the
\* loop if it raises
BackoffScroll ==
    /\ pc = "backoff_scroll"
    /\ triggers' = triggers + 1
    /\ backoff_triggers' = backoff_triggers + 1
    /\ PageRenders
    /\ \/ /\ pc' = "backoff_settle"
          /\ scrolledSinceRead' = TRUE
          /\ UNCHANGED << scrollFailed, stopReason >>
       \/ /\ UNCHANGED scrolledSinceRead
          /\ scrollFailed' = TRUE
          /\ stopReason' = "trigger_failed"
          /\ pc' = OnScrollError
    /\ UNCHANGED << textVars, collectorVars, extractVars, returned, reads,
                    lastReadCount, unchangedRun, markerAtRead, markerAtCheck >>
    /\ NoteUntriggeredLoad

\* scraper.py:102  await asyncio.sleep(1.0) after the back-off scroll
BackoffSettle ==
    /\ pc = "backoff_settle"
    /\ PageRenders
    /\ pc' = "scroll"
    /\ UNCHANGED << textVars, collectorVars, extractVars, returned, reads, triggers,
                    backoff_triggers, lastReadCount, unchangedRun, markerAtRead,
                    markerAtCheck, scrolledSinceRead, scrollFailed, stopReason >>
    /\ NoteUntriggeredLoad

\* scraper.py:109-115  record the count, scroll (the evaluate of line 111);
\* leave the loop if it raises
Scroll ==
    /\ pc = "scroll"
    /\ previous_results_count' = current_results_count
    /\ triggers' = triggers + 1
    /\ PageRenders
    /\ \/ /\ pc' = "scroll_settle"
          /\ scrolledSinceRead' = TRUE
          /\ UNCHANGED << scrollFailed, stopReason >>
       \/ /\ UNCHANGED scrolledSinceRead
          /\ scrollFailed' = TRUE
          /\ stopReason' = "trigger_failed"
          /\ pc' = OnScrollError
    /\ UNCHANGED << textVars, current_results_count, scroll_attempts,
                    consecutive_no_change, extractVars, returned, reads,
                    backoff_triggers, lastReadCount, unchangedRun, markerAtRead,
                    markerAtCheck >>
    /\ NoteUntriggeredLoad

\* scraper.py:112-119 and 81  await asyncio.sleep(1.5), count the attempt, test
\* the loop condition
ScrollSettle ==
    /\ pc = "scroll_settle"
    /\ PageRenders
    /\ scroll_attempts' = scroll_attempts + 1
    /\ IF LoopCondition(scroll_attempts + 1)
         THEN pc' = "read_count" /\ UNCHANGED stopReason
         ELSE pc' = "list_elements" /\ stopReason' = "max"
    /\ UNCHANGED << textVars, previous_results_count, current_results_count,
                    consecutive_no_change, extractVars, returned, reads, triggers,
                    backoff_triggers, lastReadCount, unchangedRun, markerAtRead,
                    markerAtCheck, scrolledSinceRead, scrollFailed >>
    /\ NoteUntriggeredLoad

\* scraper.py:123-124  result_elements = await page.locator(...).all()
ListElements ==
    /\ pc = "list_elements"
    /\ PageRenders
    /\ num_elements' = feedItems'
    /\ idx' = 1
    /\ pc' = "process"
    /\ UNCHANGED << textVars, collectorVars, results, processed, bundle, parsed,
                    returned, reads, triggers, backoff_triggers, lastReadCount,
                    unchangedRun, markerAtRead, markerAtCheck, scrolledSinceRead,
                    scrollFailed, stopReason >>
    /\ NoteUntriggeredLoad

\* scraper.py:183, 200, 201  the iteration is suspended in one of its awaits
\* (element.evaluate, the listing of the info elements, the text of one of
\* them) and has more to await: the page renders, the iteration's own state
\* (i, results) is as it was.
AwaitElement ==
    /\ pc = "process"
    /\ idx <= num_elements
    /\ PageRenders
    /\ UNCHANGED << textVars, pc, collectorVars, extractVars, returned, historyVars >>

\* scraper.py:178-349  one iteration of the extraction loop, at the answer of
\* its last await: the element has been evaluated and parsed, and its record,
\* if it gets one, is appended.  The page goes on rendering; the elements
\* listed at line 124 stay the ones processed.
ProcessElement ==
    /\ pc = "process"
    /\ idx <= num_elements
    /\ PageRenders
    /\ \E b \in SessionBundles :
         /\ bundle' = b
         /\ parsed' = SessionOutcome[b]
         /\ processed' = Append(processed, b)
    /\ results' = IF parsed'.kind = "record"
                    THEN Append(results, result_data(parsed'))
                    ELSE results
    /\ idx' = idx + 1
    /\ UNCHANGED << textVars, pc, num_elements, collectorVars, returned, historyVars >>

\* scraper.py:351-353  close the browser and return results
Finish ==
    /\ pc = "process"
    /\ idx > num_elements
    /\ returned' = results
    /\ pc' = "done"
    /\ UNCHANGED << textVars, collectorVars, extractVars, pageVars, historyVars >>

Next ==
    \/ WaitForFeed
    \/ ReadCount
    \/ CheckMarker
    \/ BackoffWait
    \/ BackoffScroll
    \/ BackoffSettle
    \/ Scroll
    \/ ScrollSettle
    \/ ListElements
    \/ AwaitElement
    \/ ProcessElement
    \/ Finish

Spec == Init /\ [][Next]_vars

(***************************************************************************)
(* The parser alone: one listing, drawn from ParserBundles, is processed   *)
(* as the extraction loop processes it.                                    *)
(***************************************************************************)
InitParser ==
    /\ pc = "parse"
    /\ bundle \in ParserBundles
    /\ parsed = NotParsed
    /\ results = << >>
    /\ processed = << >>
    /\ text_in = None
    /\ cleaned = << >>
    /\ previous_results_count = 1
    /\ current_results_count = 1
    /\ scroll_attempts = 1
    /\ consecutive_no_change = 1
    /\ num_elements = 1
    /\ idx = 1
    /\ returned = NotReturned
    /\ feedVisible = TRUE
    /\ feedItems = 1
    /\ markerVisible = TRUE
    /\ reads = 2
    /\ triggers = 1
    /\ backoff_triggers = 0
    /\ lastReadCount = 1
    /\ unchangedRun = 1
    /\ markerAtRead = TRUE
    /\ markerAtCheck = TRUE
    /\ scrolledSinceRead = FALSE
    /\ loadedUntriggered = FALSE
    /\ scrollFailed = FALSE
    /\ stopReason = "marker"

\* scraper.py:178-349  the loop body on the listing drawn
ParseListing ==
    /\ pc = "parse"
    /\ parsed' = process_element(bundle)
    /\ processed' = Append(processed, bundle)
    /\ results' = IF parsed'.kind = "record"
                    THEN Append(results, result_data(parsed'))
                    ELSE results
    /\ idx' = idx + 1
    /\ pc' = "parsed"
    /\ UNCHANGED << textVars, bundle, num_elements, collectorVars, pageVars, returned,
                    historyVars >>

NextParser == ParseListing

SpecParser == InitParser /\ [][NextParser]_vars

(***************************************************************************)
(* The text normalizer alone: a text is drawn from CleanTextInputs and     *)
(* clean_text is called on it, then on what it returned, and so on.        *)
(***************************************************************************)

\* The characters of the texts the normalizer is given: two letters, the
\* space, the no-break space and an icon glyph of the Private Use Area
TextAlphabet == { "a", "b", " ", "NBSP", "PUA" }

\* The texts of at most n characters of TextAlphabet
RECURSIVE TextsUpTo(_)
TextsUpTo(n) ==
    IF n = 0 THEN { << >> }
    ELSE LET shorter == TextsUpTo(n - 1)
         IN  shorter \cup { Append(t, c) : t \in shorter, c \in TextAlphabet }

\* What clean_text is called on: an absent text, "N/A", and every text of at
\* most MaxTextLen characters, the empty, the blank and the glyph-only ones
\* among them
CleanTextInputs == { None, NA } \cup TextsUpTo(MaxTextLen)

InitCleaner ==
    /\ pc = "clean"
    /\ text_in \in CleanTextInputs
    /\ cleaned = << >>
    /\ bundle = NoBundle
    /\ parsed = NotParsed
    /\ results = << >>
    /\ processed = << >>
    /\ previous_results_count = 0
    /\ current_results_count = 0
    /\ scroll_attempts = 0
    /\ consecutive_no_change = 0
    /\ num_elements = 0
    /\ idx = 0
    /\ returned = NotReturned
    /\ feedVisible = TRUE
    /\ feedItems = 0
    /\ markerVisible = FALSE
    /\ reads = 0
    /\ triggers = 0
    /\ backoff_triggers = 0
    /\ lastReadCount = 0
    /\ unchangedRun = 0
    /\ markerAtRead = FALSE
    /\ markerAtCheck = FALSE
    /\ scrolledSinceRead = FALSE
    /\ loadedUntriggered = FALSE
    /\ scrollFailed = FALSE
    /\ stopReason = "none"

\* scraper.py:8-13  one call of clean_text; what it returns is the argument
\* of the next call
CleanText ==
    /\ pc = "clean"
    /\ Len(cleaned) < MaxCleanings
    /\ cleaned' = Append(cleaned, clean_text(text_in))
    /\ text_in' = cleaned'[Len(cleaned')]
    /\ UNCHANGED << pc, collectorVars, extractVars, pageVars, returned,
                    historyVars >>

NextCleaner == CleanText

SpecCleaner == InitCleaner /\ [][NextCleaner]_vars

(***************************************************************************)
(* Claims about the Feed Collector                                         *)
(***************************************************************************)

LoopPcs == { "read_count", "check_marker", "backoff_wait", "backoff_scroll",
             "backoff_settle", "scroll", "scroll_settle" }
AfterLoopPcs == { "list_elements", "process", "done" }

\* C1: whatever the page does, the scroll loop is bounded: the attempt counter
\* never exceeds 20, the item count is read at most 20 times, every read but
\* the one in progress has been paid for by one attempt, and no read happens
\* once extraction has started.
C1_LoopBounded ==
    /\ scroll_attempts <= max_scroll_attempts
    /\ reads <= max_scroll_attempts
    /\ reads - scroll_attempts \in { 0, 1 }
    /\ (pc = "read_count" => reads = scroll_attempts)
    /\ (stopReason = "max" => scroll_attempts = max_scroll_attempts)

C1_Witness ==
    /\ pc = "done"
    /\ stopReason = "max"
    /\ reads = max_scroll_attempts
    /\ scroll_attempts = max_scroll_attempts

\* C2: with no end marker seen and no trigger failure the loop is left for a stall
\* exactly at the read that is the third in a row to equal the read before it;
\* the stall counter is the length of the current run of unchanged reads, so
\* a read that differs resets it; the final count is the last count read.
C2_StallStop ==
    /\ consecutive_no_change = unchangedRun
    /\ (stopReason = "stall" =>
            /\ unchangedRun = stall_threshold
            /\ ~markerAtCheck
            /\ previous_results_count = lastReadCount
            /\ reads >= stall_threshold + 1)
    /\ (pc \in LoopPcs \ { "check_marker" } => unchangedRun < stall_threshold)
    /\ (pc \in { "backoff_wait", "backoff_scroll", "backoff_settle" } =>
            unchangedRun \in 1 .. stall_threshold - 1)

\* The run 0,k,k,k,k of scenario 4: stopped at the fifth read with count k.
C2_Witness ==
    /\ pc = "done"
    /\ stopReason = "stall"
    /\ reads = 5
    /\ previous_results_count = MaxItems
    /\ scroll_attempts = 4

\* C3 as stated: after a read, following the first attempt, at which the end
\* marker is visible, no scroll trigger is issued any more, the marker staying
\* visible all the while.
C3_Original ==
    [][ (reads >= 2 /\ markerAtRead /\ markerVisible /\ markerVisible') =>
            triggers' = triggers ]_vars

\* C3 as amended: the marker is looked at (line 89) only after a read,
\* following the first attempt, that returns the same count as the read
\* before it; when that look finds the marker visible the loop is left at
\* once, whatever the stall counter: no trigger, no back-off, no further read.
C3_MarkerStop ==
    [][ /\ (markerAtCheck' =>
                /\ unchangedRun' >= 1
                /\ triggers' = triggers
                /\ reads' = reads
                /\ pc' \in AfterLoopPcs
                /\ stopReason' = "marker")
        /\ (pc = "check_marker" /\ markerVisible' => markerAtCheck')
        /\ (stopReason' = "marker" => markerAtCheck') ]_vars

C3_Witness ==
    /\ pc = "done"
    /\ stopReason = "marker"
    /\ unchangedRun = 1
    /\ markerAtCheck
    /\ scroll_attempts < max_scroll_attempts

\* C4: once a scroll evaluation has raised, the loop is over: no read, no
\* trigger and no attempt increment follows, the count kept is the last one
\* read, and the session goes on to list every element the page holds when
\* line 124 looks at it, processes each of them and returns the records made
\* from them, whatever the page renders meanwhile.
C4_TriggerFailure ==
    [][ /\ (scrollFailed =>
                /\ reads' = reads
                /\ triggers' = triggers
                /\ scroll_attempts' = scroll_attempts
                /\ previous_results_count' = previous_results_count)
        /\ (scrollFailed' =>
                /\ pc' \in AfterLoopPcs
                /\ stopReason' = "trigger_failed"
                /\ previous_results_count' = lastReadCount')
        /\ (scrollFailed /\ pc = "list_elements" /\ pc' = "process" =>
                num_elements' = feedItems')
        /\ (scrollFailed' /\ pc' = "done" =>
                /\ Len(processed') = num_elements'
                /\ returned' = results') ]_vars

C4_Witness ==
    /\ pc = "done"
    /\ scrollFailed
    /\ backoff_triggers >= 1
    /\ Len(returned) >= 1

\* C5: when the feed never becomes visible the session ends with the empty
\* result returned, and nothing of the collector or of the extraction ran.
C5_NoFeed ==
    (~feedVisible /\ pc # "wait_feed") =>
        /\ pc = "done"
        /\ returned = << >>
        /\ results = << >>
        /\ reads = 0
        /\ triggers = 0
        /\ num_elements = 0
        /\ processed = << >>

C5_Witness ==
    /\ ~feedVisible
    /\ pc = "done"
    /\ feedItems > 0
    /\ returned = << >>

\* Upper bound of the back-off re-triggers: the reads 2..20 can stall, and of
\* any three reads in a row at most two back off.
MaxBackoffTriggers ==
    LET n == max_scroll_attempts - 1
    IN  (stall_threshold - 1) * (n \div stall_threshold)
          + (IF n % stall_threshold < stall_threshold - 1
               THEN n % stall_threshold ELSE stall_threshold - 1)

\* C9 as stated: the scroll trigger is issued at most 20 times, the back-off
\* re-triggers included.
C9_Original == triggers <= max_scroll_attempts

\* C9 as amended: the per-attempt trigger (line 111) is issued at most 20
\* times; the back-off re-triggers (line 101) come on top of it, at most 13 of
\* them, so at most 33 triggers are issued in all.
C9_TriggerBound ==
    /\ triggers - backoff_triggers <= max_scroll_attempts
    /\ backoff_triggers <= MaxBackoffTriggers
    /\ triggers <= max_scroll_attempts + MaxBackoffTriggers

C9_Witness ==
    /\ triggers = max_scroll_attempts + MaxBackoffTriggers
    /\ backoff_triggers = MaxBackoffTriggers

\* C10: items loading only when a scroll has been triggered, on every way out
\* of the loop the count the collector ends with is the number of elements
\* the extraction lists.
C10_FinalCountComplete ==
    pc \in { "process", "done" } /\ stopReason # "no_feed" /\ ~loadedUntriggered =>
        previous_results_count = num_elements

(***************************************************************************)
(* Claims about the extraction loop and the Listing Field Parser           *)
(***************************************************************************)

\* The name of a listing is present: it is there and does not normalize to
\* nothing or to the sentinel.
NamePresent(name) ==
    /\ Truthy(name)
    /\ clean_text(name) # << >>
    /\ clean_text(name) # NA

\* For each listing of a session: whether it is to get a record (evaluated
\* without error, name present), and the name the record is to carry
ListingKept == [ b \in SessionBundles |-> b.eval_ok /\ NamePresent(b.name) ]
ListingName == [ b \in SessionBundles |-> clean_text(b.name) ]

KeptListings(listings) == SelectSeq(listings, LAMBDA b : ListingKept[b])

\* C6: the result holds, in feed order, exactly one record for each listing
\* met so far whose evaluation succeeded and whose name is present, whether
\* or not its extraction passes raised; a listing left out or a failure does
\* not end the loop: when the session returns, every listed element was met.
C6_OneRecordPerNamedListing ==
    /\ LET kept == KeptListings(processed)
       IN  /\ Len(results) = Len(kept)
           /\ \A i \in 1 .. Len(kept) : results[i].Name = ListingName[kept[i]]
    /\ (pc = "process" => Len(processed) = idx - 1)
    /\ (pc = "done" /\ stopReason # "no_feed" =>
            /\ Len(processed) = num_elements
            /\ returned = results)

\* Two listings: the first has no record (no name, or its evaluation raised),
\* the second's passes raised, and it is in the result all the same.
C6_Witness ==
    /\ pc = "done"
    /\ Len(processed) = 2
    /\ ~ListingKept[processed[1]]
    /\ processed[2].eval_ok
    /\ processed[2].fail_at # 0
    /\ Len(returned) = 1
    /\ returned[1].Name = processed[2].name

\* A field is populated: present and not the empty string
Populated(value) == value # None /\ value # << >>

\* C7: every field of every record appended is populated, also when the
\* extraction passes raised and the handler of line 331 made the record.
C7_FieldsPopulated ==
    pc = "parsed" /\ parsed.kind = "record" =>
        \A f \in DOMAIN results[1] : Populated(results[1][f])

\* \w for the modelled characters: digits, ASCII letters, underscore
WordChars == { << 48, 57 >>, << 65, 90 >>, << 95, 95 >>, << 97, 122 >> }

\* \b at offset pos of text
WordBoundaryAt(text, pos) ==
    (pos > 0 /\ InClass(text[pos], WordChars))
        # (pos < Len(text) /\ InClass(text[pos + 1], WordChars))

\* keyword occurs at offset pos of text as a whole word, whatever the case
WholeWordAt(text, keyword, pos) ==
    /\ pos + Len(keyword) <= Len(text)
    /\ \A i \in 1 .. Len(keyword) : InClass(text[pos + i], LitClass(keyword[i], TRUE))
    /\ WordBoundaryAt(text, pos)
    /\ WordBoundaryAt(text, pos + Len(keyword))

WholeWordOffsets(text, keyword) ==
    { pos \in 0 .. Len(text) : WholeWordAt(text, keyword, pos) }

Least(S) == CHOOSE x \in S : \A y \in S : x <= y

\* The indices of the keywords of known_types found in text as whole words
TypesIn(text) ==
    { j \in 1 .. Len(known_types) : WholeWordOffsets(text, known_types[j]) # { } }

\* C8: when the working text holds a keyword of the category list as a whole
\* word (case-insensitively), the type pass stores the canonical spelling of
\* the first such keyword in list order and removes its first occurrence
\* from the working text.
C8_TypeByKeyword ==
    pc = "parsed" /\ parsed.type_pass /\ TypesIn(parsed.type_text) # { } =>
        LET j == Least(TypesIn(parsed.type_text))
            at == Least(WholeWordOffsets(parsed.type_text, known_types[j]))
        IN  /\ parsed.type_found = known_types[j]
            /\ parsed.type_rest =
                   Slice(parsed.type_text, 0, at)
                     \o Slice(parsed.type_text, at + Len(known_types[j]),
                              Len(parsed.type_text))

(***************************************************************************)
(* Claims about the text normalizer                                        *)
(***************************************************************************)

\* C11: clean_text is idempotent: whatever text it is first given, absent,
\* empty, blank or made of icon glyphs only, calling it on what it returned
\* returns the same text again.
C11_CleanTextIdempotent ==
    \A i \in 1 .. Len(cleaned) - 1 : cleaned[i + 1] = cleaned[i]

====
